---- MODULE Spec2Model ----
(***************************************************************************)
(* dagviz: the track-allocation plot builder (make_abstract_plot and the   *)
(* AbstractPlot it drives) and the layout renderer (render), as one state  *)
(* machine.  A run picks a DAG and a node sequence, builds the abstract    *)
(* plot row by row, then walks it and logs every call made on the drawing  *)
(* backend.                                                                *)
(***************************************************************************)
EXTENDS Integers, Sequences, FiniteSets, TLC

\* Bounds of the explored inputs.
MaxNodes == 4
MaxEdges == 6

\* "No origin row recorded" (start_row of a cell that has no back-reference).
NoRow == -1

VARIABLES
    G,          \* the graph: [nodes, edges], edges a set of <<u, v>>
    sequence,   \* the node order make_abstract_plot iterates over
    pc,         \* position in the build-then-render pipeline
    error,      \* the exception that ended the pipeline, or "none"
    i,          \* make_abstract_plot: index of the node being processed
    todo,       \* make_abstract_plot: predecessors of nd not yet added
    plot,       \* the AbstractPlot: rows, columns, colors, open tracks
    style,      \* render: the backend instances constructed by styler
    calls,      \* the calls issued on the backend, in order
    r,          \* render: index (in plot.rows) of the row being drawn
    k,          \* render: index of the cell being scanned in that row
    last_col,   \* render local
    arcs,       \* render local
    nodepos,    \* render local
    node_pos    \* render local

vars == <<G, sequence, pc, error, i, todo, plot, style, calls, r, k,
          last_col, arcs, nodepos, node_pos>>

buildVars == <<i, todo, plot>>
renderVars == <<style, calls, r, k, last_col, arcs, nodepos, node_pos>>

----------------------------------------------------------------------------
\* The graph interface used by make_abstract_plot.

\* G.pred[nd]
Pred(g, nd) == {e[1] : e \in {f \in g.edges : f[2] = nd}}

\* G.succ[nd]
Succ(g, nd) == {e[2] : e \in {f \in g.edges : f[1] = nd}}

\* Off by one: counts one successor too many.
SuccCountPlusOne(g, nd) == Cardinality(Succ(g, nd)) + 1

\* len(G.succ[nd]), the successor count handed to add_node
SuccCount(g, nd) == Cardinality(Succ(g, nd))

\* G.nodes[nd].get("label", f"{nd}"): without a label attribute the label
\* is the node's own identifier.
Label(g, nd) == nd

\* Position of a node in the sequence (0 when absent).
PosOf(nd) ==
    IF \E j \in 1..Len(sequence) : sequence[j] = nd
    THEN CHOOSE j \in 1..Len(sequence) : sequence[j] = nd
    ELSE 0

\* The node sequences tried on a graph of nodes 1..n: the order 1, ..., n
\* (a topological order, as every edge goes from a lower to a higher node)
\* and that order with two nodes exchanged.
Orderings(n) ==
    {[j \in 1..n |-> IF j = a THEN b ELSE IF j = b THEN a ELSE j] : a, b \in 1..n}

ForwardPairs(n) == {e \in (1..n) \X (1..n) : e[1] < e[2]}

SetMin(S) == CHOOSE x \in S : \A y \in S : x <= y

----------------------------------------------------------------------------
\* The abstract plot.

EmptyColumns == [c \in {} |-> 0]

EmptyPlot ==
    [rows |-> <<>>,
     columns |-> [start |-> 0, stop |-> 0],
     colors |-> 0,
     tracks |-> [n \in {} |-> 0]]

\* Columns currently held by an open track.
Occupied(p) == {p.tracks[n].column : n \in DOMAIN p.tracks}

\* Takes the first column of the range without looking at who holds it.
FirstColumn(p) ==
    IF p.columns.start < p.columns.stop THEN p.columns.start ELSE p.columns.stop

\* Lowest column of the range not held by an open track, else one past it.
FindFreeColumn(p) ==
    LET free == {c \in p.columns.start..(p.columns.stop - 1) : c \notin Occupied(p)}
    IN  IF free # {} THEN SetMin(free) ELSE p.columns.stop

\* The final-consumer flag of an Input cell.
IsFinal(remaining) == remaining = 0

\* AbstractPlot.add_row
PlotAddRow(p, label) ==
    [p EXCEPT !.rows = Append(@, [row |-> Len(p.rows), label |-> label,
                                  columns |-> EmptyColumns])]

\* AbstractRow.add_input for a predecessor whose track is open.
RowAddInput(p, pred) ==
    LET t == p.tracks[pred]
        remaining == t.remaining - 1
        is_final == IsFinal(remaining)
        cell == [column |-> t.column, color |-> t.color,
                 is_node |-> FALSE, is_input |-> TRUE, is_last |-> is_final,
                 start_row |-> IF is_final THEN t.row ELSE NoRow]
    IN  [p EXCEPT
            !.rows[Len(p.rows)].columns = (t.column :> cell) @@ @,
            !.tracks = IF is_final
                       THEN [n \in (DOMAIN @) \ {pred} |-> @[n]]
                       ELSE [@ EXCEPT ![pred].remaining = remaining]]

\* AbstractRow.add_node
RowAddNode(p, nd, successors) ==
    LET column == FindFreeColumn(p)
        cur == p.rows[Len(p.rows)]
        base == IF column \in DOMAIN cur.columns
                THEN cur.columns[column]
                ELSE [column |-> column, color |-> column,
                      is_node |-> FALSE, is_input |-> FALSE, is_last |-> FALSE,
                      start_row |-> NoRow]
        cell == [base EXCEPT !.is_node = TRUE, !.color = column]
        stop == IF column >= p.columns.stop THEN column + 1 ELSE p.columns.stop
        track == [column |-> column, remaining |-> successors,
                  row |-> cur.row, color |-> column]
    IN  [p EXCEPT
            !.rows[Len(p.rows)].columns = (column :> cell) @@ @,
            !.columns.stop = stop,
            !.colors = IF stop - p.columns.start > @ THEN stop - p.columns.start ELSE @,
            !.tracks = IF successors > 0 THEN (nd :> track) @@ @ ELSE @]

\* Iteration over a row: its cells in ascending column order.
Cells(rw) ==
    LET S == DOMAIN rw.columns
    IN  [j \in 1..Cardinality(S) |->
            rw.columns[CHOOSE c \in S : Cardinality({d \in S : d < c}) = j - 1]]

----------------------------------------------------------------------------
\* make_abstract_plot

Init ==
    /\ \E n \in 1..MaxNodes :
         /\ \E E \in SUBSET ForwardPairs(n) :
              /\ Cardinality(E) <= MaxEdges
              /\ G = [nodes |-> 1..n, edges |-> E]
         /\ sequence \in Orderings(n)
    /\ pc = "add_row"
    /\ error = "none"
    /\ i = 1
    /\ todo = {}
    /\ plot = EmptyPlot
    /\ style = <<>>
    /\ calls = <<>>
    /\ r = 0
    /\ k = 0
    /\ last_col = 0
    /\ arcs = <<>>
    /\ nodepos = <<0, 0>>
    /\ node_pos = 1

\* The row is opened and the node added at once, before the inputs.
AddRowThenNode ==
    /\ pc = "add_row"
    /\ i <= Len(sequence)
    /\ LET nd == sequence[i] IN
         /\ plot' = RowAddNode(PlotAddRow(plot, Label(G, nd)), nd, SuccCount(G, nd))
         /\ todo' = Pred(G, nd)
         /\ pc' = IF Pred(G, nd) = {} THEN "add_node" ELSE "add_input"
    /\ UNCHANGED <<G, sequence, error, i>>
    /\ UNCHANGED renderVars

\* for nd in sequence: row = plot.add_row(label)
AddRow ==
    /\ pc = "add_row"
    /\ i <= Len(sequence)
    /\ LET nd == sequence[i] IN
         /\ plot' = PlotAddRow(plot, Label(G, nd))
         /\ todo' = Pred(G, nd)
         /\ pc' = IF Pred(G, nd) = {} THEN "add_node" ELSE "add_input"
    /\ UNCHANGED <<G, sequence, error, i>>
    /\ UNCHANGED renderVars

\* for pred in G.pred[nd]: row.add_input(pred)
AddInput ==
    /\ pc = "add_input"
    /\ \E pred \in todo :
         IF pred \in DOMAIN plot.tracks
         THEN /\ plot' = RowAddInput(plot, pred)
              /\ todo' = todo \ {pred}
              /\ pc' = IF todo \ {pred} = {} THEN "add_node" ELSE "add_input"
              /\ error' = error
         ELSE /\ error' = "InvalidOrderingError"
              /\ pc' = "raised"
              /\ UNCHANGED <<plot, todo>>
    /\ UNCHANGED <<G, sequence, i>>
    /\ UNCHANGED renderVars

\* The node's column is chosen as if add_node had run before the row's
\* add_input calls: the columns of the row's Input cells still count as held.
AddNodeBeforeInputs ==
    /\ pc = "add_node"
    /\ LET cur == plot.rows[Len(plot.rows)]
           held == {c \in DOMAIN cur.columns : cur.columns[c].is_input}
           stillHeld == [n \in {-(c + 1) : c \in held} |->
                            [column |-> -(n + 1), remaining |-> 1,
                             row |-> cur.row, color |-> -(n + 1)]]
           q == RowAddNode([plot EXCEPT !.tracks = stillHeld @@ @],
                           sequence[i], SuccCount(G, sequence[i]))
       IN  plot' = [q EXCEPT !.tracks = [n \in {m \in DOMAIN @ : m > 0} |-> @[n]]]
    /\ i' = i + 1
    /\ pc' = "add_row"
    /\ UNCHANGED <<G, sequence, error, todo>>
    /\ UNCHANGED renderVars

\* row.add_node(nd, len(G.succ[nd]))
AddNode ==
    /\ pc = "add_node"
    /\ plot' = RowAddNode(plot, sequence[i], SuccCount(G, sequence[i]))
    /\ i' = i + 1
    /\ pc' = "add_row"
    /\ UNCHANGED <<G, sequence, error, todo>>
    /\ UNCHANGED renderVars

\* return plot
ReturnPlot ==
    /\ pc = "add_row"
    /\ i > Len(sequence)
    /\ pc' = "built"
    /\ UNCHANGED <<G, sequence, error>>
    /\ UNCHANGED buildVars
    /\ UNCHANGED renderVars

----------------------------------------------------------------------------
\* The calls render makes on the style (the drawing backend).

NoPos == <<0, 0>>

Call(op, a, b, color, label) ==
    [op |-> op, a |-> a, b |-> b, color |-> color, label |-> label]

place_node(at, color, label) == Call("place_node", at, NoPos, color, label)
place_left_hline(left, right, color) == Call("place_left_hline", left, right, color, 0)
place_right_hline(left, right, color) == Call("place_right_hline", left, right, color, 0)
place_vline_arc(top, bottom, color) == Call("place_vline_arc", top, bottom, color, 0)
place_vline_node(top, bottom, color) == Call("place_vline_node", top, bottom, color, 0)
place_left_arc(at, color) == Call("place_left_arc", at, NoPos, color, 0)
place_right_arc(at, color) == Call("place_right_arc", at, NoPos, color, 0)
place_label(np, at, label) == Call("place_label", np, at, 0, label)
dumps == Call("dumps", NoPos, NoPos, 0, 0)

----------------------------------------------------------------------------
\* render

\* The row and the cell the scan is at.
CurRow == plot.rows[r]
CurCol == Cells(CurRow)[k]

\* The branch an Input cell takes, with "<= 0" for "< 0": no straight branch.
BranchNoVline(np) == IF np <= 0 THEN "left" ELSE "right"

\* The branch an Input cell takes, with the two arc branches swapped.
BranchSwapped(np) == IF np < 0 THEN "right" ELSE IF np = 0 THEN "vline" ELSE "left"

\* The branch an Input cell takes: node_pos < 0, node_pos == 0, else.
Branch(np) == IF np < 0 THEN "left" ELSE IF np = 0 THEN "vline" ELSE "right"

\* The vertical of a final arc, drawn in the right-arc branch only.
ArcVlineRightOnly(col, np) == col.is_last /\ np > 0

\* if col.is_last: place_vline_arc(...), in both arc branches
ArcVline(col, np) == col.is_last

\* The block at the Node cell needs two pending arcs: with one, no pre-node
\* connector is drawn and the pending buffer is not cleared.
LeftHlineFromTwo(a) == Len(a) >= 2

\* if len(arcs) != 0: place_left_hline(...)
LeftHline(a) == Len(a) # 0

\* Connector at the end of the row from one pending entry on.
RightHlineFromOne(a) == Len(a) >= 1

\* Connector at the end of the row only with more than two pending entries.
RightHlineOverTwo(a) == Len(a) > 2

\* if len(arcs) >= 2: place_right_hline(...)
RightHline(a) == Len(a) >= 2

\* Label column taken from the node instead of the last cell scanned.
LabelColumnAtNode(lc, np) == np[1] + 1

\* last_col + 1, the column of the label
LabelColumn(lc, np) == lc + 1

\* col.start_row.row and col.start_row.columns[col.column] can be read.
HasOrigin(col) ==
    /\ col.start_row # NoRow
    /\ col.start_row + 1 \in 1..Len(plot.rows)
    /\ col.column \in DOMAIN plot.rows[col.start_row + 1].columns

\* (col.column, col.start_row.row)
OriginPos(col) == <<col.column, col.start_row>>

\* col.start_row.columns[col.column].color
OriginColor(col) == plot.rows[col.start_row + 1].columns[col.column].color

\* The pipeline goes on to render once the plot has been returned.
RenderAfterRaise == pc \in {"built", "raised"}

\* render(make_abstract_plot(G), style): render runs on the returned plot.
RenderEntered == pc = "built"

\* style = styler(plot.colors, -plot.columns.start)
Styler ==
    /\ RenderEntered
    /\ style' = Append(style, [colors |-> plot.colors, shift |-> -plot.columns.start])
    /\ r' = 1
    /\ pc' = "row"
    /\ UNCHANGED <<G, sequence, error, calls, k, last_col, arcs, nodepos, node_pos>>
    /\ UNCHANGED buildVars

\* The position marker is initialised once, not per row.
RowBeginNoReset ==
    /\ pc = "row"
    /\ r <= Len(plot.rows)
    /\ last_col' = 0
    /\ arcs' = <<>>
    /\ nodepos' = <<0, 0>>
    /\ node_pos' = node_pos
    /\ k' = 1
    /\ pc' = IF Len(Cells(CurRow)) = 0 THEN "row_end" ELSE "col_node"
    /\ UNCHANGED <<G, sequence, error, style, calls, r>>
    /\ UNCHANGED buildVars

\* for row in plot.rows: the four locals are reset
RowBegin ==
    /\ pc = "row"
    /\ r <= Len(plot.rows)
    /\ last_col' = 0
    /\ arcs' = <<>>
    /\ nodepos' = <<0, 0>>
    /\ node_pos' = 1
    /\ k' = 1
    /\ pc' = IF Len(Cells(CurRow)) = 0 THEN "row_end" ELSE "col_node"
    /\ UNCHANGED <<G, sequence, error, style, calls, r>>
    /\ UNCHANGED buildVars

\* for col in row: last_col, curpos and the "if col.is_node" block
ColNode ==
    /\ pc = "col_node"
    /\ LET col == CurCol
           curpos == <<col.column, CurRow.row>>
       IN  /\ last_col' = col.column
           /\ IF col.is_node
              THEN /\ nodepos' = curpos
                   /\ calls' = calls
                        \o <<place_node(curpos, col.color, CurRow.label)>>
                        \o (IF LeftHline(arcs)
                            THEN <<place_left_hline(<<arcs[1].column, CurRow.row>>,
                                                    curpos, arcs[1].color)>>
                            ELSE <<>>)
                   /\ arcs' = IF LeftHline(arcs) THEN <<col>> ELSE Append(arcs, col)
                   /\ node_pos' = 0
              ELSE UNCHANGED <<nodepos, calls, arcs, node_pos>>
    /\ pc' = "col_input"
    /\ UNCHANGED <<G, sequence, error, style, r, k>>
    /\ UNCHANGED buildVars

\* the "if col.is_input" block
ColInput ==
    /\ pc = "col_input"
    /\ LET col == CurCol
           curpos == <<col.column, CurRow.row>>
           branch == Branch(node_pos)
           arc == IF branch = "left"
                  THEN place_left_arc(curpos, col.color)
                  ELSE place_right_arc(curpos, col.color)
           needsOrigin == branch = "vline" \/ ArcVline(col, node_pos)
       IN  IF ~col.is_input
           THEN /\ pc' = "col_update"
                /\ UNCHANGED <<error, calls, arcs>>
           ELSE IF branch = "vline"
           THEN IF HasOrigin(col)
                THEN /\ calls' = Append(calls,
                            place_vline_node(OriginPos(col), curpos, OriginColor(col)))
                     /\ pc' = "col_update"
                     /\ UNCHANGED <<error, arcs>>
                ELSE /\ error' = IF col.start_row = NoRow
                                 THEN "AttributeError" ELSE "KeyError"
                     /\ pc' = "raised"
                     /\ UNCHANGED <<calls, arcs>>
           ELSE /\ arcs' = Append(arcs, col)
                /\ IF ~ArcVline(col, node_pos)
                   THEN /\ calls' = Append(calls, arc)
                        /\ pc' = "col_update"
                        /\ error' = error
                   ELSE IF HasOrigin(col)
                   THEN /\ calls' = calls \o
                            <<arc, place_vline_arc(OriginPos(col), curpos, OriginColor(col))>>
                        /\ pc' = "col_update"
                        /\ error' = error
                   ELSE /\ calls' = Append(calls, arc)
                        /\ error' = IF col.start_row = NoRow
                                    THEN "AttributeError" ELSE "KeyError"
                        /\ pc' = "raised"
    /\ UNCHANGED <<G, sequence, style, r, k, last_col, nodepos, node_pos>>
    /\ UNCHANGED buildVars

\* the trailing "if col.is_node: node_pos = -1", then the next cell
ColUpdate ==
    /\ pc = "col_update"
    /\ node_pos' = IF CurCol.is_node THEN -1 ELSE node_pos
    /\ IF k < Len(Cells(CurRow))
       THEN /\ k' = k + 1
            /\ pc' = "col_node"
       ELSE /\ k' = k
            /\ pc' = "row_end"
    /\ UNCHANGED <<G, sequence, error, style, calls, r, last_col, arcs, nodepos>>
    /\ UNCHANGED buildVars

\* after the cells of a row: the right horizontal line and the label
RowEnd ==
    /\ pc = "row_end"
    /\ calls' = calls
         \o (IF RightHline(arcs)
             THEN <<place_right_hline(<<arcs[1].column, CurRow.row>>,
                                      <<arcs[Len(arcs)].column, CurRow.row>>,
                                      arcs[Len(arcs)].color)>>
             ELSE <<>>)
         \o <<place_label(nodepos, <<LabelColumn(last_col, nodepos), CurRow.row>>,
                          CurRow.label)>>
    /\ r' = r + 1
    /\ pc' = "row"
    /\ UNCHANGED <<G, sequence, error, style, k, last_col, arcs, nodepos, node_pos>>
    /\ UNCHANGED buildVars

\* The return sits inside the row loop: dumps after the first row.
DumpsInsideLoop ==
    /\ pc = "row"
    /\ r > 1
    /\ calls' = Append(calls, dumps)
    /\ pc' = "done"
    /\ UNCHANGED <<G, sequence, error, style, r, k, last_col, arcs, nodepos, node_pos>>
    /\ UNCHANGED buildVars

\* return style.dumps()
Dumps ==
    /\ pc = "row"
    /\ r > Len(plot.rows)
    /\ calls' = Append(calls, dumps)
    /\ pc' = "done"
    /\ UNCHANGED <<G, sequence, error, style, r, k, last_col, arcs, nodepos, node_pos>>
    /\ UNCHANGED buildVars

Next ==
    \/ AddRow
    \/ AddInput
    \/ AddNode
    \/ ReturnPlot
    \/ Styler
    \/ RowBegin
    \/ ColNode
    \/ ColInput
    \/ ColUpdate
    \/ RowEnd
    \/ Dumps

Spec == Init /\ [][Next]_vars

----------------------------------------------------------------------------
\* Vocabulary of the properties.

\* The sequence is a topological order of G.
Valid == \A e \in G.edges : PosOf(e[1]) < PosOf(e[2])

\* make_abstract_plot has returned the plot.
Built == pc \in {"built", "row", "col_node", "col_input", "col_update", "row_end", "done"}

\* Rows whose processing is complete.
RowsDone == IF pc \in {"add_input", "add_node"} THEN Len(plot.rows) - 1 ELSE Len(plot.rows)

\* Between two rows of the build, or after it.
AtRowBoundary == pc = "add_row" \/ Built

NodeCols(rw) == {c \in DOMAIN rw.columns : rw.columns[c].is_node}
InputCols(rw) == {c \in DOMAIN rw.columns : rw.columns[c].is_input}
NodeCol(rw) == CHOOSE c \in NodeCols(rw) : TRUE
PreInputs(rw) == {c \in InputCols(rw) : c < NodeCol(rw)}
PostInputs(rw) == {c \in InputCols(rw) : c > NodeCol(rw)}
ArcInputs(rw) == PreInputs(rw) \cup PostInputs(rw)

\* The row of a node, in a plot that holds it.
RowOf(nd) == plot.rows[PosOf(nd)]

\* The successor of u that comes last in the sequence.
LastSucc(u) == CHOOSE v \in Succ(G, u) : \A w \in Succ(G, u) : PosOf(w) <= PosOf(v)

\* The row index where the track crossing row rw at column c was opened:
\* the nearest earlier row with a Node cell at c.
TrackOrigin(rw, c) ==
    LET S == {j \in 1..rw.row : c \in NodeCols(plot.rows[j])}
    IN  IF S = {} THEN NoRow ELSE (CHOOSE j \in S : \A m \in S : m <= j) - 1

Idx(op) == {j \in 1..Len(calls) : calls[j].op = op}
ArcOps == {"place_left_arc", "place_right_arc"}
HlineOps == {"place_left_hline", "place_right_hline"}
VlineOps == {"place_vline_arc", "place_vline_node"}

\* The row a call draws in.
CallRow(c) ==
    IF c.op \in VlineOps \cup {"place_label"} THEN c.b[2] ELSE c.a[2]

\* The calls of one kind drawn in row rw.
InRow(op, rw) == {j \in Idx(op) : CallRow(calls[j]) = rw.row}

AllRows == {plot.rows[j] : j \in 1..Len(plot.rows)}

----------------------------------------------------------------------------
\* C1: while a valid topological ordering is processed, no two open tracks
\* ever hold the same column, and the column of every open track is the
\* column of its own Node cell (a column passes to a new track only once the
\* track that held it has closed).
C1_TracksDisjoint ==
    Valid =>
        /\ \A a, b \in DOMAIN plot.tracks :
             a # b => plot.tracks[a].column # plot.tracks[b].column
        /\ \A a \in DOMAIN plot.tracks :
             LET t == plot.tracks[a] IN
               /\ t.row + 1 \in 1..Len(plot.rows)
               /\ plot.rows[t.row + 1].label = a
               /\ t.column \in NodeCols(plot.rows[t.row + 1])

\* C1 witness: two tracks are open and one of them sits in a column that an
\* earlier, closed track held.
C1_Witness ==
    /\ Valid
    /\ pc = "add_row"
    /\ Cardinality(DOMAIN plot.tracks) >= 2
    /\ \E a \in DOMAIN plot.tracks : \E j \in 1..plot.tracks[a].row :
         plot.tracks[a].column \in NodeCols(plot.rows[j])

\* C2: for a node u with k >= 1 successors, at every row boundary the track
\* of u is open exactly from u's row up to the row before its last successor;
\* the rows after u's up to the last successor's hold a cell in u's column
\* exactly when they are rows of successors of u (k Input cells), and that
\* cell is flagged is_last on the last successor only.
C2_TrackClosedOnce ==
    (Valid /\ AtRowBoundary) =>
        \A u \in G.nodes :
            (Succ(G, u) # {} /\ PosOf(u) <= RowsDone) =>
                LET c == NodeCol(RowOf(u))
                    last == PosOf(LastSucc(u))
                IN  /\ u \in DOMAIN plot.tracks <=> last > RowsDone
                    /\ \A j \in (PosOf(u) + 1)..RowsDone :
                         j <= last =>
                           /\ c \in DOMAIN plot.rows[j].columns
                                <=> sequence[j] \in Succ(G, u)
                           /\ sequence[j] \in Succ(G, u) =>
                                /\ plot.rows[j].columns[c].is_input
                                /\ plot.rows[j].columns[c].is_last <=> j = last

\* C2 witness: a finished plot with a node of three successors, whose track
\* passed a row that does not consume it.
C2_Witness ==
    /\ Valid
    /\ pc = "built"
    /\ \E u \in G.nodes :
         /\ Cardinality(Succ(G, u)) >= 2
         /\ \E j \in (PosOf(u) + 1)..PosOf(LastSucc(u)) : sequence[j] \notin Succ(G, u)

\* Every node has exactly one row, with exactly one Node cell.
OneRowPerNode ==
    /\ Len(plot.rows) = Cardinality(G.nodes)
    /\ \A nd \in G.nodes :
         /\ Cardinality({j \in 1..Len(plot.rows) : plot.rows[j].label = nd}) = 1
         /\ RowOf(nd).label = nd
         /\ Cardinality(NodeCols(RowOf(nd))) = 1

\* The Input cells of the row of v are one per predecessor, each in the
\* column of that predecessor's Node cell.
OneInputPerEdge ==
    \A v \in G.nodes :
        /\ Cardinality(InputCols(RowOf(v))) = Cardinality(Pred(G, v))
        /\ \A u \in Pred(G, v) : NodeCol(RowOf(u)) \in InputCols(RowOf(v))

\* C3 as stated: every node in exactly one row with one Node cell, and every
\* edge u->v gives exactly one Input cell in v's row, with is_last true.
C3_Original ==
    (Valid /\ Built) =>
        /\ OneRowPerNode
        /\ OneInputPerEdge
        /\ \A e \in G.edges :
             RowOf(e[2]).columns[NodeCol(RowOf(e[1]))].is_last

\* C3, amended: every node in exactly one row with one Node cell, and every
\* edge u->v gives exactly one Input cell in v's row, whose is_last flag is
\* true exactly when v is the last successor of u in the ordering.
C3_RowsAndInputs ==
    (Valid /\ Built) =>
        /\ OneRowPerNode
        /\ OneInputPerEdge
        /\ \A e \in G.edges :
             RowOf(e[2]).columns[NodeCol(RowOf(e[1]))].is_last
                <=> e[2] = LastSucc(e[1])

\* C3 witness: a finished plot of a graph where some node has two successors
\* and some node has two predecessors.
C3_Witness ==
    /\ Valid
    /\ pc = "built"
    /\ \E u \in G.nodes : Cardinality(Succ(G, u)) >= 2
    /\ \E v \in G.nodes : Cardinality(Pred(G, v)) >= 2

\* The first position of the sequence whose node has a predecessor later on.
FirstBad ==
    CHOOSE j \in 1..Len(sequence) :
        /\ \E u \in Pred(G, sequence[j]) : PosOf(u) > j
        /\ \A m \in 1..(j - 1) : \A u \in Pred(G, sequence[m]) : PosOf(u) < m

\* C4: with a sequence that puts a node before one of its predecessors the
\* build never gets past that node and never returns a plot, it can end only
\* by raising InvalidOrderingError, and neither the backend is constructed
\* nor any call is made on it.
C4_InvalidOrderingRaises ==
    ~Valid =>
        /\ pc \in {"add_row", "add_input", "add_node", "raised"}
        /\ i <= FirstBad
        /\ pc = "raised" => error = "InvalidOrderingError"
        /\ pc # "raised" => error = "none"
        /\ style = <<>>
        /\ calls = <<>>

\* C4 witness: the build has raised after completing at least one row.
C4_Witness ==
    /\ ~Valid
    /\ pc = "raised"
    /\ error = "InvalidOrderingError"
    /\ Len(plot.rows) >= 2

\* C5: once the render is complete, every Input cell has produced exactly the
\* primitive of its side of the Node cell: before it one right arc and
\* nothing else, on it one place_vline_node from the track's origin row to
\* this row and no arc, after it one left arc and nothing else.
C5_Classification ==
    pc = "done" =>
        \A rw \in AllRows : \A c \in InputCols(rw) :
            LET at == <<c, rw.row>>
                n == NodeCol(rw)
                right == {j \in Idx("place_right_arc") : calls[j].a = at}
                left == {j \in Idx("place_left_arc") : calls[j].a = at}
                vline == {j \in Idx("place_vline_node") : calls[j].b = at}
            IN  /\ Cardinality(right) = IF c < n THEN 1 ELSE 0
                /\ Cardinality(left) = IF c > n THEN 1 ELSE 0
                /\ Cardinality(vline) = IF c = n THEN 1 ELSE 0
                /\ \A j \in vline : calls[j].a = <<c, TrackOrigin(rw, c)>>
                /\ \A j \in left \cup right : calls[j].color = rw.columns[c].color

\* C5 witness: a complete render with an Input cell before a node, one on a
\* node's column and one after a node.
C5_Witness ==
    /\ pc = "done"
    /\ \E rw \in AllRows : PreInputs(rw) # {}
    /\ \E rw \in AllRows : NodeCol(rw) \in InputCols(rw)
    /\ \E rw \in AllRows : PostInputs(rw) # {}

\* C6: once the render is complete, an Input cell drawn as an arc has one
\* place_vline_arc ending at it, from the same column in the track's origin
\* row, when its is_last flag is set and none otherwise; so every track
\* whose last Input cell is an arc has exactly one place_vline_arc.
C6_ArcVertical ==
    pc = "done" =>
        /\ \A rw \in AllRows : \A c \in ArcInputs(rw) :
             LET vline == {j \in Idx("place_vline_arc") : calls[j].b = <<c, rw.row>>}
             IN  /\ Cardinality(vline) = IF rw.columns[c].is_last THEN 1 ELSE 0
                 /\ \A j \in vline : calls[j].a = <<c, TrackOrigin(rw, c)>>
        /\ \A u \in G.nodes :
             Succ(G, u) # {} =>
                LET c == NodeCol(RowOf(u))
                    from == {j \in Idx("place_vline_arc") : calls[j].a = <<c, RowOf(u).row>>}
                IN  Cardinality(from) =
                        IF c \in ArcInputs(RowOf(LastSucc(u))) THEN 1 ELSE 0

\* C6 witness: a complete render with a final arc cell and a non-final one.
C6_Witness ==
    /\ pc = "done"
    /\ \E rw \in AllRows : \E c \in ArcInputs(rw) : rw.columns[c].is_last
    /\ \E rw \in AllRows : \E c \in ArcInputs(rw) : ~rw.columns[c].is_last

\* C7 as stated: a horizontal connector on a side of the node only with at
\* least two Input cells on that side.
C7_Original ==
    pc = "done" =>
        \A rw \in AllRows :
            /\ InRow("place_left_hline", rw) # {} => Cardinality(PreInputs(rw)) >= 2
            /\ InRow("place_right_hline", rw) # {} => Cardinality(PostInputs(rw)) >= 2

\* C7, amended: a horizontal connector is emitted on a side of the node only
\* when at least one Input cell lies on that side (the pre-node connector
\* only if an Input cell precedes the Node cell, the post-node connector
\* only if one lies strictly after it); a row with no Input cell on a side
\* emits no connector for that side.
C7_HlineOnlyWithArcs ==
    pc = "done" =>
        \A rw \in AllRows :
            /\ InRow("place_left_hline", rw) # {} => Cardinality(PreInputs(rw)) >= 1
            /\ InRow("place_right_hline", rw) # {} => Cardinality(PostInputs(rw)) >= 1

\* C7 witness: a complete render where a row with exactly one Input cell
\* before the node has its pre-node connector and a row with exactly one
\* after the node has its post-node connector.
C7_Witness ==
    /\ pc = "done"
    /\ \E rw \in AllRows :
         Cardinality(PreInputs(rw)) = 1 /\ InRow("place_left_hline", rw) # {}
    /\ \E rw \in AllRows :
         Cardinality(PostInputs(rw)) = 1 /\ InRow("place_right_hline", rw) # {}
    /\ \E rw \in AllRows : InputCols(rw) = {} /\ Len(plot.rows) > 1

\* The 4-node chain A->B->C->D taken in the order A, B, C, D.
IsChain4 ==
    /\ G = [nodes |-> 1..4, edges |-> {<<1, 2>>, <<2, 3>>, <<3, 4>>}]
    /\ sequence = <<1, 2, 3, 4>>

\* C8: in the rendered 4-node chain each of the rows B, C, D has exactly one
\* Input cell, on the row's node column, drawn by one place_vline_node, and
\* the diagram has no arc, no place_vline_arc and no horizontal connector.
C8_ChainStraight ==
    (IsChain4 /\ pc = "done") =>
        /\ \A j \in 2..4 :
             /\ InputCols(plot.rows[j]) = NodeCols(plot.rows[j])
             /\ Cardinality(InputCols(plot.rows[j])) = 1
             /\ Cardinality(InRow("place_vline_node", plot.rows[j])) = 1
        /\ InputCols(plot.rows[1]) = {}
        /\ Cardinality(Idx("place_vline_node")) = 3
        /\ \A j \in 1..Len(calls) :
             calls[j].op \notin ArcOps \cup HlineOps \cup {"place_vline_arc"}

\* C8 witness: the chain has been rendered.
C8_Witness == IsChain4 /\ pc = "done" /\ Len(calls) > 1

\* Nodes A, B, C with edges A->C and B->C, in the order A, B, C.
IsJoin3 ==
    /\ G = [nodes |-> 1..3, edges |-> {<<1, 3>>, <<2, 3>>}]
    /\ sequence = <<1, 2, 3>>

\* What C9 says of the plot and the calls, but for the place of the Inputs.
Join3Common ==
    /\ NodeCols(plot.rows[1]) = {0} /\ InputCols(plot.rows[1]) = {}
    /\ NodeCols(plot.rows[2]) = {1} /\ InputCols(plot.rows[2]) = {}
    /\ InputCols(plot.rows[3]) = {0, 1}
    /\ \A c \in {0, 1} : plot.rows[3].columns[c].is_last
    /\ Cardinality(NodeCols(plot.rows[3])) = 1
    /\ InRow("place_left_hline", plot.rows[3]) = {}
    /\ Cardinality(InRow("place_right_hline", plot.rows[3])) = 1
    /\ {<<calls[j].a, calls[j].b>> : j \in Idx("place_vline_arc") \cup Idx("place_vline_node")}
         = {<< <<0, 0>>, <<0, 2>> >>, << <<1, 1>>, <<1, 2>> >>}
    /\ Cardinality(Idx("place_vline_arc") \cup Idx("place_vline_node")) = 2

\* C9 as stated: both Input cells of row C precede its Node cell.
C9_Original ==
    (IsJoin3 /\ pc = "done") =>
        /\ Join3Common
        /\ \A c \in InputCols(plot.rows[3]) : c < NodeCol(plot.rows[3])

\* C9, amended: rows A and B each open their own track, row C has Input
\* cells for both tracks with is_last on both plus its Node cell; the Node
\* cell shares column 0 with the Input cell of A's track and the Input cell
\* of B's track follows it; render emits for row C exactly one horizontal
\* connector, the right-horizontal one, and exactly two vertical segments,
\* one from row A (a place_vline_node) and one from row B (a place_vline_arc).
C9_JoinScenario ==
    (IsJoin3 /\ pc = "done") =>
        /\ Join3Common
        /\ NodeCols(plot.rows[3]) = {0}
        /\ PostInputs(plot.rows[3]) = {1}
        /\ \E j \in Idx("place_vline_node") : calls[j].a = <<0, 0>>
        /\ \E j \in Idx("place_vline_arc") : calls[j].a = <<1, 1>>

\* C9 witness: the join has been rendered.
C9_Witness == IsJoin3 /\ pc = "done" /\ Len(calls) > 1

\* C10: once the render is complete, every row has exactly one place_label,
\* issued after every other call of that row, placed one column right of the
\* row's rightmost cell in the row's own line, anchored at the Node cell.
C10_Label ==
    pc = "done" =>
        \A rw \in AllRows :
            LET labels == InRow("place_label", rw)
                cols == DOMAIN rw.columns
                rightmost == CHOOSE c \in cols : \A d \in cols : d <= c
            IN  /\ Cardinality(labels) = 1
                /\ \A j \in labels :
                     /\ calls[j].b = <<rightmost + 1, rw.row>>
                     /\ calls[j].a = <<NodeCol(rw), rw.row>>
                     /\ calls[j].label = rw.label
                     /\ \A m \in 1..Len(calls) :
                          (calls[m].op # "dumps" /\ CallRow(calls[m]) = rw.row) => m <= j

\* C10 witness: a complete render with a row whose rightmost cell is an Input
\* cell right of the node.
C10_Witness ==
    /\ pc = "done"
    /\ \E rw \in AllRows : PostInputs(rw) # {}
    /\ Len(plot.rows) >= 3

\* The graph of one node and no edge.
IsSingle ==
    /\ G = [nodes |-> 1..1, edges |-> {}]
    /\ sequence = <<1>>

\* C11: the single-node graph gives a plot of one row holding one Node cell
\* and no Input cell, with no track left open (successor count 0), and its
\* render issues exactly place_node, place_label and dumps: no arc, no
\* vertical segment, no horizontal connector.
C11_SingleNode ==
    (IsSingle /\ Built) =>
        /\ Len(plot.rows) = 1
        /\ Cardinality(NodeCols(plot.rows[1])) = 1
        /\ DOMAIN plot.rows[1].columns = NodeCols(plot.rows[1])
        /\ InputCols(plot.rows[1]) = {}
        /\ DOMAIN plot.tracks = {}
        /\ pc = "done" =>
             /\ Len(calls) = 3
             /\ calls[1] = place_node(<<0, 0>>, 0, 1)
             /\ calls[2].op = "place_label"
             /\ calls[3] = dumps

\* C11 witness: the single-node graph has been rendered.
C11_Witness == IsSingle /\ pc = "done" /\ Len(calls) > 1

----------------------------------------------------------------------------
\* render on a plot that is not the builder's: render is a public function
\* and takes any AbstractPlot.

\* The Input cells of row j for which render draws a vertical: the final
\* ones and the one on the node's column.
NeedsVertical(p, j) ==
    {c \in InputCols(p.rows[j]) :
        p.rows[j].columns[c].is_last \/ c \in NodeCols(p.rows[j])}

\* The origin row of the cell at column c of row j is not recorded, or has
\* no cell at column c.
OriginMissing(p, j, c) ==
    LET s == p.rows[j].columns[c].start_row
    IN  IF s = NoRow \/ s + 1 \notin 1..Len(p.rows)
        THEN TRUE
        ELSE c \notin DOMAIN p.rows[s + 1].columns

\* The plot is internally inconsistent.
Inconsistent(p) ==
    \E j \in 1..Len(p.rows) : \E c \in NeedsVertical(p, j) : OriginMissing(p, j, c)

\* The plot reaches render with the back-reference of one Input cell that
\* needs a vertical dropped, or moved to a row without a cell at its column.
HandOverDamagedPlot ==
    /\ pc = "add_row"
    /\ i > Len(sequence)
    /\ \E j \in 1..Len(plot.rows) : \E c \in NeedsVertical(plot, j) :
         \E s \in {NoRow} \cup (0..(Len(plot.rows) - 1)) :
            LET damaged == [plot EXCEPT !.rows[j].columns[c].start_row = s]
            IN  /\ OriginMissing(damaged, j, c)
                /\ plot' = damaged
    /\ pc' = "built"
    /\ UNCHANGED <<G, sequence, error, i, todo>>
    /\ UNCHANGED renderVars

NextDamaged == Next \/ HandOverDamagedPlot

SpecDamaged == Init /\ [][NextDamaged]_vars

\* C13: render, once entered (the backend is constructed) on an
\* inconsistent plot, never requests serialization and
\* never completes, and when it aborts it does so with
\* InternalConsistencyError.
C13_AbortsWithInternalConsistencyError ==
    (Len(style) > 0 /\ Inconsistent(plot)) =>
        /\ pc # "done"
        /\ Idx("dumps") = {}
        /\ pc = "raised" => error = "InternalConsistencyError"

\* The part of C13 the code keeps: on an inconsistent plot render stops at
\* the first cell whose origin it cannot read, with the exception of that
\* read, and dumps is never called.
C13_NoSerialization ==
    (Len(style) > 0 /\ Inconsistent(plot)) =>
        /\ pc # "done"
        /\ Idx("dumps") = {}
        /\ pc = "raised" => error \in {"AttributeError", "KeyError"}

----------------------------------------------------------------------------
\* The row being built.
BuildRow == plot.rows[Len(plot.rows)]

\* C14 as stated: the Node cell of a row is recorded and the node's track
\* opened before any predecessor track is touched or any Input cell of the
\* row is emitted: whenever the inputs of a row are under way, the row
\* already has its Node cell.
C14_Original ==
    (Valid /\ pc = "add_input") => NodeCols(BuildRow) # {}

\* C14, amended: for each node the builder locates, decrements and closes
\* the predecessor tracks and emits every Input cell of the row first, and
\* only then opens the node's own track and records the row's Node cell:
\* while the inputs are under way the row has no Node cell and the node has
\* no track, and when the node is added all the Input cells are there.
C14_InputsBeforeNode ==
    (Valid /\ pc \in {"add_input", "add_node"}) =>
        /\ NodeCols(BuildRow) = {}
        /\ sequence[i] \notin DOMAIN plot.tracks
        /\ Cardinality(InputCols(BuildRow)) + Cardinality(todo)
             = Cardinality(Pred(G, sequence[i]))
        /\ pc = "add_node" => todo = {}

\* C14 witness: the node of a row with two predecessors is about to be
\* added, both Input cells being in place.
C14_Witness ==
    /\ Valid
    /\ pc = "add_node"
    /\ Cardinality(InputCols(BuildRow)) >= 2

\* C15 as stated: the node of a row never gets a column that an open track
\* held at the start of the row. (The columns held then and touched by the
\* row are those of its Input cells; the others stay held.)
C15_Original ==
    (Valid /\ AtRowBoundary) =>
        \A rw \in AllRows : \A n \in NodeCols(rw) :
            n \notin InputCols(rw)

\* C15, amended: a column freed by closing a predecessor's track while a row
\* is processed can be reused within that same row: the row's node gets the
\* lowest free column after the row's Input cells are emitted, so it never
\* lies right of a column freed in this row (a final Input cell) and never
\* on the column of a track that stays open (a non-final Input cell).
C15_ReuseWithinRow ==
    (Valid /\ AtRowBoundary) =>
        \A rw \in AllRows : \A n \in NodeCols(rw) : \A c \in InputCols(rw) :
            /\ rw.columns[c].is_last => n <= c
            /\ ~rw.columns[c].is_last => n # c

\* C15 witness: a row whose node took the column freed by one of its own
\* Input cells while another of its Input cells stays open.
C15_Witness ==
    /\ Valid
    /\ pc = "add_row"
    /\ \E rw \in AllRows :
         /\ NodeCol(rw) \in InputCols(rw)
         /\ \E c \in InputCols(rw) : ~rw.columns[c].is_last

----------------------------------------------------------------------------
\* The Node cell of the row being drawn lies among its first n cells.
NodeAmong(n) == \E j \in 1..n : Cells(CurRow)[j].is_node

\* C16: the position marker node_pos is decided by the scan position alone:
\* BeforeNode (1) from the start of every row until the Node cell is
\* reached, AtNode (0) only while the Node cell itself is processed (from
\* its "is_node" block to its trailing update), AfterNode (-1) from then on
\* and at the end of the scan of every row that has a Node cell; hence it is
\* reset at each row, never moves backwards within a row, and the Node cell
\* alone moves it.
C16_PositionMarker ==
    /\ node_pos \in {1, 0, -1}
    /\ pc = "col_node" =>
         /\ node_pos = IF NodeAmong(k - 1) THEN -1 ELSE 1
         /\ k = 1 => node_pos = 1
    /\ pc \in {"col_input", "col_update"} =>
         node_pos = IF CurCol.is_node THEN 0
                    ELSE IF NodeAmong(k - 1) THEN -1 ELSE 1
    /\ pc = "row_end" =>
         node_pos = IF NodeAmong(Len(Cells(CurRow))) THEN -1 ELSE 1

\* C16 witness: in a row after the first, the marker is AtNode while a Node
\* cell that follows an Input cell is processed.
C16_Witness ==
    /\ pc = "col_input"
    /\ node_pos = 0
    /\ r >= 2
    /\ k >= 2

----------------------------------------------------------------------------
\* The calls that draw (every call but dumps).
Primitives == {j \in 1..Len(calls) : calls[j].op # "dumps"}

\* C17: the backend is constructed exactly once and before any call on it;
\* the primitives come row by row in plot order, every row that is finished
\* ending with its label before the next row starts; dumps is called exactly
\* once, as the last call, when every row has been drawn, and not before.
C17_CallOrder ==
    /\ Len(style) <= 1
    /\ calls # <<>> => Len(style) = 1
    /\ Len(style) = 1 => style[1] = [colors |-> plot.colors, shift |-> -plot.columns.start]
    /\ \A a, b \in Primitives : a < b => CallRow(calls[a]) <= CallRow(calls[b])
    /\ \A a \in Primitives :
         (a < Len(calls) /\ calls[a + 1].op # "dumps"
            /\ CallRow(calls[a]) < CallRow(calls[a + 1]))
         => /\ calls[a].op = "place_label"
            /\ CallRow(calls[a + 1]) = CallRow(calls[a]) + 1
    /\ \A j \in Idx("dumps") : j = Len(calls) /\ pc = "done"
    /\ pc = "done" =>
         /\ Cardinality(Idx("dumps")) = 1
         /\ calls[Len(calls) - 1] = place_label(nodepos,
                <<last_col + 1, Len(plot.rows) - 1>>, plot.rows[Len(plot.rows)].label)
         /\ {CallRow(calls[j]) : j \in Idx("place_label")} = 0..(Len(plot.rows) - 1)
         /\ calls[1].op = "place_node" /\ CallRow(calls[1]) = 0

\* C17 witness: a render of at least three rows has returned.
C17_Witness ==
    /\ pc = "done"
    /\ Len(plot.rows) >= 3
    /\ Cardinality(Idx("dumps")) = 1

----------------------------------------------------------------------------
SetMax(S) == CHOOSE x \in S : \A y \in S : y <= x

----------------------------------------------------------------------------
\* C19: in every plot built from a valid topological ordering, an Input cell
\* on its row's node column is the final consumer of its track and carries
\* the origin row of that track, which has a cell at that column; so render
\* never fails on a missing back-reference, and no track still open holds
\* the column of a later row's Node cell it crosses.
C19_NodeColumnInputIsFinal ==
    Valid =>
        /\ AtRowBoundary =>
             \A rw \in AllRows : \A n \in NodeCols(rw) :
                /\ n \in InputCols(rw) =>
                     /\ rw.columns[n].is_last
                     /\ rw.columns[n].start_row # NoRow
                     /\ rw.columns[n].start_row = TrackOrigin(rw, n)
                     /\ n \in DOMAIN plot.rows[rw.columns[n].start_row + 1].columns
                /\ \A a \in DOMAIN plot.tracks :
                     plot.tracks[a].row < rw.row => plot.tracks[a].column # n
        /\ ~(pc = "raised" /\ Len(style) > 0)
        /\ error = "none"

\* C19 witness: the straight-line branch has drawn the vertical of an Input
\* cell on the node's column, in a row that has another Input cell too.
C19_Witness ==
    /\ pc = "col_update"
    /\ CurCol.is_node
    /\ CurCol.is_input
    /\ Cardinality(InputCols(CurRow)) >= 2
    /\ calls[Len(calls)].op = "place_vline_node"

====
